---------------------------- MODULE Spec2Model ----------------------------
(***************************************************************************)
(* Model of the MarkdownAsset editor widget (SMarkdownAssetEditor) and the *)
(* file helpers of FMarkdownAssetEditorModule.                             *)
(*                                                                         *)
(* State: the open asset (class, Text, URL, package dirty flag), the       *)
(* script binding's text, the file system the helpers read and write, the  *)
(* embedded browser (load state, the page's <base href>) and the editor's  *)
(* bBrowserTemplateLoaded flag.  lastEvent and calls record the handler    *)
(* that ran last and the external calls it made, in order.                 *)
(*                                                                         *)
(* FString values that the code takes apart (URLs, paths, hrefs) are       *)
(* sequences of one-character strings, and so are file contents.           *)
(***************************************************************************)
EXTENDS Naturals, Integers, Sequences, FiniteSets

VARIABLES
    AssetIsLink,             \* Cast<UMarkdownLinkAsset>(MarkdownAsset) != nullptr
    Text,                    \* UMarkdownAsset::Text
    URL,                     \* UMarkdownLinkAsset::URL
    Dirty,                   \* the asset package's dirty flag
    BindingText,             \* UMarkdownBinding::Text
    FileData,                \* existing files -> their content
    ReadOnly,                \* files and directories that are read-only
    Directories,             \* existing directories
    editor,                  \* "closed" | "open" | "nobrowser"
    browser,                 \* "none" | "loading" | "complete"
    bBrowserTemplateLoaded,  \* SMarkdownAssetEditor::bBrowserTemplateLoaded
    PageBase,                \* href of the page's <base> tag, <<>> when it has none
    lastEvent,               \* the handler that ran last, with its input
    calls                    \* the external calls that handler made, in order

vars == << AssetIsLink, Text, URL, Dirty, BindingText, FileData, ReadOnly,
           Directories, editor, browser, bBrowserTemplateLoaded, PageBase,
           lastEvent, calls >>

-----------------------------------------------------------------------------
(* FString *)

INDEX_NONE == 0 - 1

EmptyString == << >>

IsEmpty(s) == Len(s) = 0

\* FString::Left(Count): the Count leftmost characters, Count clamped to [0, Len].
Left(s, n) ==
    LET k == IF n < 0 THEN 0 ELSE IF n > Len(s) THEN Len(s) ELSE n
    IN  SubSeq(s, 1, k)

\* FString::Right(Count): the Count rightmost characters.
Right(s, n) ==
    LET k == IF n < 0 THEN 0 ELSE IF n > Len(s) THEN Len(s) ELSE n
    IN  SubSeq(s, Len(s) - k + 1, Len(s))

\* FString::Contains(SubStr): SubStr occurs somewhere in s.
Contains(s, sub) ==
    \E i \in 1..(Len(s) - Len(sub) + 1) : SubSeq(s, i, i + Len(sub) - 1) = sub

\* FString::FindLastChar(c, Index): the 0-based index of the last c, or INDEX_NONE.
FindLastChar(s, c) ==
    LET hits == { i \in 1..Len(s) : s[i] = c }
    IN  IF hits = {} THEN INDEX_NONE
        ELSE (CHOOSE i \in hits : \A j \in hits : j <= i) - 1

\* FString::ReplaceInline(From, To) for one-character From and To.
ReplaceInline(s, from, to) ==
    [ i \in 1..Len(s) |-> IF s[i] = from THEN to ELSE s[i] ]

\* FPaths::GetPath: what precedes the last '/' or '\', empty when there is none.
GetPath(InPath) ==
    LET hits == { i \in 1..Len(InPath) : InPath[i] \in {"/", "\\"} }
        Pos  == IF hits = {} THEN INDEX_NONE
                ELSE (CHOOSE i \in hits : \A j \in hits : j <= i) - 1
    IN  IF Pos # INDEX_NONE THEN Left(InPath, Pos) ELSE EmptyString

SchemeSeparator == << ":", "/", "/" >>
FileScheme == << "f", "i", "l", "e", ":", "/", "/", "/" >>

-----------------------------------------------------------------------------
(* FText *)

FromString(s) == [ Source |-> s ]
ToString(t)   == t.Source
GetEmpty      == [ Source |-> EmptyString ]

-----------------------------------------------------------------------------
(* The universe of the model *)

UEmpty   == << >>
UBare    == << "f" >>
ULocal   == << "d", "/", "f" >>
UOther   == << "d", "/", "g" >>
UNoDir   == << "e", "\\", "d", "/", "f" >>
UAbs     == << "/", "d", "/", "f" >>
URemote  == << "h", ":", "/", "/", "s", "/", "p" >>

Urls == { UEmpty, UBare, ULocal, UOther, UNoDir, UAbs, URemote }

DirD == << "d" >>

\* What a file, or the script's edit, may hold: up to MaxTextLen characters.
MaxTextLen == 2
Contents == { [ i \in 1..n |-> "m" ] : n \in 0..MaxTextLen }
Texts    == { FromString(c) : c \in Contents }

\* The process's base directory, which relative paths are resolved against.
BaseDirAbs == << "/", "w" >>

-----------------------------------------------------------------------------
(* Host file system, as the helpers use it *)

FileExists(FilePath)       == FilePath \in DOMAIN FileData
DirectoryExists(Directory) == Directory \in Directories
IsReadOnly(Path)           == Path \in ReadOnly

\* FFileHelper::LoadFileToString: fails when the file does not exist or the
\* host cannot read it (ioOk is the host's answer for an existing file).
LoadFileToString(FilePath, ioOk) ==
    IF FileExists(FilePath) /\ ioOk
    THEN [ ok |-> TRUE,  data |-> FileData[FilePath] ]
    ELSE [ ok |-> FALSE, data |-> EmptyString ]

\* FFileHelper::SaveStringToFile: replaces the whole file; the host refuses a
\* read-only file, a new file in a read-only directory, or fails on its own.
SaveStringToFile(String, FilePath, ioOk) ==
    LET ok == /\ ioOk
              /\ ~IsEmpty(FilePath)
              /\ ~IsReadOnly(FilePath)
              /\ (FileExists(FilePath) \/ ~IsReadOnly(GetPath(FilePath)))
    IN  [ ok    |-> ok,
          files |-> IF ok
                    THEN [ p \in DOMAIN FileData \cup {FilePath} |->
                             IF p = FilePath THEN String ELSE FileData[p] ]
                    ELSE FileData ]

-----------------------------------------------------------------------------
(* FMarkdownAssetEditorModule *)

\* Mutant: a failed read hands back the text the asset already holds.
ReadTextFromFile_KeepsText(FilePath, ioOk) ==
    LET r == LoadFileToString(FilePath, ioOk)
    IN  IF r.ok THEN FromString(r.data) ELSE Text

ReadTextFromFile(FilePath, ioOk) ==
    LET r == LoadFileToString(FilePath, ioOk)
    IN  IF r.ok THEN FromString(r.data) ELSE GetEmpty

\* Mutant: the file receives the text the asset held before the edit.
WriteTextToFile_WritesStoredText(FilePath, Content, ioOk) ==
    SaveStringToFile(ToString(Text), FilePath, ioOk)

WriteTextToFile(FilePath, Content, ioOk) ==
    SaveStringToFile(ToString(Content), FilePath, ioOk)

IsFileReadOnly(FilePath) == IsReadOnly(FilePath)

CanWriteToFile(FilePath) ==
    IF IsEmpty(FilePath) THEN FALSE
    ELSE IF FileExists(FilePath) THEN ~IsFileReadOnly(FilePath)
    ELSE LET Directory == GetPath(FilePath)
         IN  IF IsEmpty(Directory) THEN FALSE
             ELSE DirectoryExists(Directory) /\ ~IsReadOnly(Directory)

-----------------------------------------------------------------------------
(* SMarkdownAssetEditor: helpers *)

\* IFileManager::ConvertToAbsolutePathForExternalAppForRead: an absolute path
\* is kept, a relative one is resolved against the process's base directory.
ConvertToAbsolutePathForExternalAppForRead(Path) ==
    IF Len(Path) > 0 /\ Path[1] \in {"/", "\\"} THEN Path
    ELSE BaseDirAbs \o << "/" >> \o Path

\* Mutant: the "://" test is dropped, so a remote URL counts as a local file.
IsCurrentFileALocalFile_IgnoresScheme(isLink, Url) ==
    IF isLink /\ ~IsEmpty(Url) THEN TRUE ELSE FALSE

IsCurrentFileALocalFile(isLink, Url) ==
    IF isLink /\ ~IsEmpty(Url)
    THEN ~Contains(Url, SchemeSeparator)
    ELSE FALSE

ComputeBaseHref(UrlString) ==
    IF Contains(UrlString, SchemeSeparator)
    THEN LET SlashIndex == FindLastChar(UrlString, "/")
         IN  IF SlashIndex # INDEX_NONE
             THEN Left(UrlString, SlashIndex + 1)
             ELSE EmptyString
    ELSE LET BaseDir == GetPath(UrlString)
         IN  IF ~IsEmpty(BaseDir)
             THEN LET Abs0 == ConvertToAbsolutePathForExternalAppForRead(BaseDir)
                      Abs1 == ReplaceInline(Abs0, "\\", "/")
                      Abs  == IF Right(Abs1, 1) # << "/" >>
                              THEN Abs1 \o << "/" >> ELSE Abs1
                  IN  FileScheme \o Abs
             ELSE EmptyString

\* One external call of a handler: the function, its path or href argument, its result.
Call(fn, arg, ret) == [ fn |-> fn, arg |-> arg, ret |-> ret ]

\* WebBrowser.IsValid(): the browser view exists once Construct has made it.
WebBrowserIsValid == browser # "none"

\* The base-href scripts OpenMarkdownAssetLink executes (lines 267-278).
OpenScripts(Url, loaded) ==
    IF loaded
    THEN LET BaseHref == ComputeBaseHref(Url)
         IN  IF WebBrowserIsValid /\ ~IsEmpty(BaseHref)
             THEN << Call("ExecuteJavascript", BaseHref, TRUE) >>
             ELSE << >>
    ELSE << >>

\* The base-href scripts HandleBrowserLoadCompleted executes (lines 239-250).
LoadCompletedScripts(isLink, Url) ==
    IF ~isLink THEN << >>
    ELSE LET BaseHref == ComputeBaseHref(Url)
         IN  IF WebBrowserIsValid /\ ~IsEmpty(BaseHref)
             THEN << Call("ExecuteJavascript", BaseHref, TRUE) >>
             ELSE << >>

\* The page after the scripts ran: each sets the <base> tag's href.  A script
\* sent while the template is still loading does not reach the final page.
PageAfter(base, scripts, complete) ==
    IF complete /\ Len(scripts) > 0 THEN scripts[Len(scripts)].arg ELSE base

\* Mutant: the write is attempted first and CanWriteToFile consulted afterwards.
WriteBack_WritesBeforeCheck(isLink, Url, EditedText, ioOk) ==
    IF isLink /\ IsCurrentFileALocalFile(isLink, Url)
    THEN LET w == WriteTextToFile(Url, EditedText, ioOk)
         IN  IF w.ok /\ CanWriteToFile(Url)
             THEN [ calls |-> << Call("WriteTextToFile", Url, TRUE),
                                 Call("CanWriteToFile", Url, TRUE) >>,
                    files |-> w.files ]
             ELSE [ calls |-> << Call("WriteTextToFile", Url, w.ok),
                                 Call("CanWriteToFile", Url, CanWriteToFile(Url)),
                                 Call("AddNotification", EmptyString, TRUE) >>,
                    files |-> w.files ]
    ELSE [ calls |-> << >>, files |-> FileData ]

\* Mutant: a failed write is tried a second time before the user is told.
WriteBack_Retries(isLink, Url, EditedText, ioOk) ==
    IF isLink /\ IsCurrentFileALocalFile(isLink, Url)
    THEN IF CanWriteToFile(Url)
         THEN LET w == WriteTextToFile(Url, EditedText, ioOk)
              IN  IF w.ok
                  THEN [ calls |-> << Call("CanWriteToFile", Url, TRUE),
                                      Call("WriteTextToFile", Url, TRUE) >>,
                         files |-> w.files ]
                  ELSE [ calls |-> << Call("CanWriteToFile", Url, TRUE),
                                      Call("WriteTextToFile", Url, FALSE),
                                      Call("WriteTextToFile", Url, FALSE),
                                      Call("AddNotification", EmptyString, TRUE) >>,
                         files |-> w.files ]
         ELSE [ calls |-> << Call("CanWriteToFile", Url, FALSE),
                             Call("AddNotification", EmptyString, TRUE) >>,
                files |-> FileData ]
    ELSE [ calls |-> << >>, files |-> FileData ]

\* What the OnSetText lambda does after storing the text (lines 83-116): the
\* calls it makes and the file system it leaves.
WriteBack(isLink, Url, EditedText, ioOk) ==
    IF isLink /\ IsCurrentFileALocalFile(isLink, Url)
    THEN IF CanWriteToFile(Url)
         THEN LET w == WriteTextToFile(Url, EditedText, ioOk)
              IN  IF w.ok
                  THEN [ calls |-> << Call("CanWriteToFile", Url, TRUE),
                                      Call("WriteTextToFile", Url, TRUE) >>,
                         files |-> w.files ]
                  ELSE [ calls |-> << Call("CanWriteToFile", Url, TRUE),
                                      Call("WriteTextToFile", Url, FALSE),
                                      Call("AddNotification", EmptyString, TRUE) >>,
                         files |-> w.files ]
         ELSE [ calls |-> << Call("CanWriteToFile", Url, FALSE),
                             Call("AddNotification", EmptyString, TRUE) >>,
                files |-> FileData ]
    ELSE [ calls |-> << >>, files |-> FileData ]

\* UObject::MarkPackageDirty
MarkPackageDirty == TRUE

\* The text OpenMarkdownAssetLink stores in the asset and the binding (lines 259-264).
OpenText(Url, ioOk) == ReadTextFromFile(Url, ioOk)

-----------------------------------------------------------------------------
(* UMarkdownBinding *)

\* Binding.SetText / Binding.GetText: a plain field exposed to the script context.
SetText(InText) == InText
GetText(BindingsText) == BindingsText

-----------------------------------------------------------------------------
(* SMarkdownAssetEditor: handlers *)

Event(name, url, text) == [ name |-> name, url |-> url, text |-> text ]

OpenMarkdownAssetLink(Url, ioOk, pageComplete) ==
    LET OriginalText == OpenText(Url, ioOk)
        scripts      == OpenScripts(Url, bBrowserTemplateLoaded)
        read         == Call("ReadTextFromFile", Url, LoadFileToString(Url, ioOk).ok)
    IN  /\ URL' = Url
        /\ Dirty' = MarkPackageDirty
        /\ Text' = OriginalText
        /\ BindingText' = SetText(OriginalText)
        /\ calls' = << read >> \o scripts
        /\ PageBase' = PageAfter(PageBase, scripts, pageComplete)

\* Construct when the WebBrowser module is not loaded: a dialog, nothing wired.
ConstructNoBrowser ==
    /\ editor = "closed"
    /\ editor' = "nobrowser"
    /\ lastEvent' = Event("ConstructNoBrowser", EmptyString, GetEmpty)
    /\ calls' = << >>
    /\ UNCHANGED << AssetIsLink, Text, URL, Dirty, BindingText, FileData, ReadOnly,
                    Directories, browser, bBrowserTemplateLoaded, PageBase >>

\* Construct for a UMarkdownAsset that is no link asset.
ConstructPlain ==
    /\ editor = "closed"
    /\ ~AssetIsLink
    /\ editor' = "open"
    /\ browser' = "loading"
    /\ BindingText' = Text
    /\ lastEvent' = Event("Construct", EmptyString, GetEmpty)
    /\ calls' = << >>
    /\ UNCHANGED << AssetIsLink, Text, URL, Dirty, FileData, ReadOnly, Directories,
                    bBrowserTemplateLoaded, PageBase >>

\* Construct for a link asset: opens the asset's own URL.
ConstructLink ==
    /\ editor = "closed"
    /\ AssetIsLink
    /\ editor' = "open"
    /\ browser' = "loading"
    /\ \E ioOk \in BOOLEAN : OpenMarkdownAssetLink(URL, ioOk, FALSE)
    /\ lastEvent' = Event("Construct", URL, GetEmpty)
    /\ UNCHANGED << AssetIsLink, FileData, ReadOnly, Directories,
                    bBrowserTemplateLoaded >>

\* The URL text box's OnTextCommitted (lines 138-140).
OnTextCommitted ==
    /\ editor = "open"
    /\ AssetIsLink
    /\ \E Url \in Urls, ioOk \in BOOLEAN :
          /\ OpenMarkdownAssetLink(Url, ioOk, browser = "complete")
          /\ lastEvent' = Event("OnTextCommitted", Url, GetEmpty)
    /\ UNCHANGED << AssetIsLink, FileData, ReadOnly, Directories, editor, browser,
                    bBrowserTemplateLoaded >>

\* The script sets the binding's text and OnSetText runs the lambda (lines 74-117).
OnSetText ==
    /\ editor = "open"
    /\ \E NewText \in Texts, ioOk \in BOOLEAN :
          /\ BindingText' = SetText(NewText)
          /\ LET EditedText == GetText(BindingText')
                 wb == WriteBack(AssetIsLink, URL, EditedText, ioOk)
             IN  /\ Dirty' = MarkPackageDirty
                 /\ Text' = EditedText
                 /\ FileData' = wb.files
                 /\ calls' = wb.calls
          /\ lastEvent' = Event("OnSetText", URL, NewText)
    /\ UNCHANGED << AssetIsLink, URL, ReadOnly, Directories, editor, browser,
                    bBrowserTemplateLoaded, PageBase >>

HandleBrowserLoadCompleted ==
    /\ browser = "loading"
    /\ browser' = "complete"
    /\ bBrowserTemplateLoaded' = TRUE
    /\ LET scripts == LoadCompletedScripts(AssetIsLink, URL)
       IN  /\ calls' = scripts
           /\ PageBase' = PageAfter(PageBase, scripts, TRUE)
    /\ lastEvent' = Event("HandleBrowserLoadCompleted", URL, GetEmpty)
    /\ UNCHANGED << AssetIsLink, Text, URL, Dirty, BindingText, FileData, ReadOnly,
                    Directories, editor >>

-----------------------------------------------------------------------------

\* The asset as loaded or created, before its editor is constructed, and the
\* file system it lives beside.
\* bBrowserTemplateLoaded starts false: the template has not loaded yet.
Init ==
    /\ AssetIsLink \in BOOLEAN
    /\ Text \in Texts
    /\ URL \in (IF AssetIsLink THEN Urls ELSE {EmptyString})
    /\ Dirty = FALSE
    /\ BindingText = GetEmpty
    /\ \E present \in SUBSET {UBare, ULocal} :
          FileData \in [ present -> {<< "m" >>} ]
    /\ ReadOnly \in SUBSET {ULocal, DirD}
    /\ Directories = {DirD}
    /\ editor = "closed"
    /\ browser = "none"
    /\ bBrowserTemplateLoaded = FALSE
    /\ PageBase = EmptyString
    /\ lastEvent = Event("none", EmptyString, GetEmpty)
    /\ calls = << >>

Next ==
    \/ ConstructNoBrowser
    \/ ConstructPlain
    \/ ConstructLink
    \/ OnTextCommitted
    \/ OnSetText
    \/ HandleBrowserLoadCompleted

Spec == Init /\ [][Next]_vars

TypeOK ==
    /\ AssetIsLink \in BOOLEAN
    /\ Text \in Texts
    /\ BindingText \in Texts
    /\ URL \in Urls
    /\ Dirty \in BOOLEAN
    /\ DOMAIN FileData \subseteq Urls
    /\ \A p \in DOMAIN FileData : FileData[p] \in Contents
    /\ editor \in {"closed", "open", "nobrowser"}
    /\ browser \in {"none", "loading", "complete"}
    /\ bBrowserTemplateLoaded \in BOOLEAN

-----------------------------------------------------------------------------
(* Observations on the handler that ran last *)

Count(cs, fn) == Len(SelectSeq(cs, LAMBDA c : c.fn = fn))

HasCall(cs, fn, ret) == \E i \in 1..Len(cs) : cs[i].fn = fn /\ cs[i].ret = ret

\* OpenMarkdownAssetLink ran last (from Construct or from a URL commit).
Opened(ev, cs) ==
    /\ ev.name \in {"Construct", "OnTextCommitted"}
    /\ Count(cs, "ReadTextFromFile") = 1

\* A URL that names a local file: non-empty, without "://".
LocalPath(Url) == ~IsEmpty(Url) /\ ~Contains(Url, SchemeSeparator)

\* The containing directory of the source, as a base href: for a URL with a
\* scheme, the prefix up to and including its last '/'; for a local path,
\* "file:///", the absolute forward-slashed directory of the file, and '/'.
ContainingDirectoryHref(Url) ==
    IF Contains(Url, SchemeSeparator)
    THEN Left(Url, FindLastChar(Url, "/") + 1)
    ELSE LET AbsFile == ConvertToAbsolutePathForExternalAppForRead(Url)
             Dir     == ReplaceInline(GetPath(AbsFile), "\\", "/")
         IN  FileScheme \o Dir \o << "/" >>

-----------------------------------------------------------------------------
(* Claims *)

\* C1: a set-text event whose edited text equals the asset's current Text
\* leaves the package dirty flag as it was and makes no WriteTextToFile call.
C1_UnchangedEditIsNoOp ==
    [][ (lastEvent'.name = "OnSetText" /\ lastEvent'.text = Text)
            => (Dirty' = Dirty /\ Count(calls', "WriteTextToFile") = 0) ]_vars

\* C2: an OpenMarkdownAssetLink with a path whose file read fails leaves the
\* package dirty flag as it was before the call.
C2_FailedOpenKeepsDirtyFlag ==
    [][ (/\ Opened(lastEvent', calls')
         /\ ~IsEmpty(URL')
         /\ HasCall(calls', "ReadTextFromFile", FALSE))
            => Dirty' = Dirty ]_vars

C4_ReadOnlyRefusedBeforeWrite ==
    [][ (/\ lastEvent'.name = "OnSetText"
         /\ AssetIsLink
         /\ LocalPath(URL)
         /\ ~CanWriteToFile(URL))
            => /\ Count(calls', "WriteTextToFile") = 0
               /\ FileData' = FileData
               /\ Count(calls', "AddNotification") = 1 ]_vars

C4_Witness ==
    /\ lastEvent.name = "OnSetText"
    /\ AssetIsLink
    /\ URL = ULocal
    /\ FileExists(URL)
    /\ IsReadOnly(URL)
    /\ lastEvent.text # FromString(FileData[URL])
    /\ Count(calls, "WriteTextToFile") = 0
    /\ Count(calls, "AddNotification") = 1

\* C6: after a set-text event whose write was refused (CanWriteToFile false)
\* or failed (WriteTextToFile false), the asset's Text is the edited text, the
\* asset is dirty, at most one WriteTextToFile call was made and exactly one
\* notification was added.
C6_FailedWriteIsTerminal ==
    (/\ lastEvent.name = "OnSetText"
     /\ \/ HasCall(calls, "CanWriteToFile", FALSE)
        \/ HasCall(calls, "WriteTextToFile", FALSE))
        => /\ Text = lastEvent.text
           /\ Dirty
           /\ Count(calls, "WriteTextToFile") <= 1
           /\ Count(calls, "AddNotification") = 1

C6_Witness ==
    /\ lastEvent.name = "OnSetText"
    /\ HasCall(calls, "WriteTextToFile", FALSE)
    /\ FileExists(URL)
    /\ Text = lastEvent.text
    /\ Text # FromString(FileData[URL])
    /\ Count(calls, "AddNotification") = 1

\* C7: right after an OpenMarkdownAssetLink whose read succeeded, and right
\* after a set-text event on a local link asset whose write succeeded, the
\* asset's Text, the binding's text and the file at the asset's URL agree.
C7_TextMirrorsFile ==
    (\/ Opened(lastEvent, calls) /\ HasCall(calls, "ReadTextFromFile", TRUE)
     \/ lastEvent.name = "OnSetText" /\ HasCall(calls, "WriteTextToFile", TRUE))
        => /\ FileExists(URL)
           /\ Text = FromString(FileData[URL])
           /\ BindingText = Text

C7_Witness ==
    /\ lastEvent.name = "OnSetText"
    /\ HasCall(calls, "WriteTextToFile", TRUE)
    /\ URL = UOther
    /\ FileExists(URL)
    /\ FileData[URL] = << "m", "m" >>
    /\ Text = FromString(<< "m", "m" >>)
    /\ BindingText = Text

\* C10: a set-text event on anything but a link asset with a non-empty URL
\* without "://" makes no CanWriteToFile or WriteTextToFile call, adds no
\* notification and leaves every file as it was; it stores the edited text
\* and marks the asset dirty.
C10_SetTextTouchesOnlyLocalLinks ==
    [][ (lastEvent'.name = "OnSetText" /\ ~(AssetIsLink /\ LocalPath(URL)))
            => /\ Count(calls', "CanWriteToFile") = 0
               /\ Count(calls', "WriteTextToFile") = 0
               /\ Count(calls', "AddNotification") = 0
               /\ FileData' = FileData
               /\ Text' = lastEvent'.text
               /\ Dirty' ]_vars

C10_Witness ==
    /\ lastEvent.name = "OnSetText"
    /\ AssetIsLink
    /\ URL = URemote
    /\ calls = << >>
    /\ Text = lastEvent.text
    /\ Text # GetEmpty
    /\ Dirty

\* The base-href scripts among a handler's calls.
Scripts(cs) == SelectSeq(cs, LAMBDA c : c.fn = "ExecuteJavascript")

\* C5: for every link URL ComputeBaseHref is the containing directory of the
\* source, with a trailing '/', and that value is the page's base href once
\* the template has loaded.
C5_BaseHrefIsContainingDirectory ==
    (AssetIsLink /\ browser = "complete" /\ ~IsEmpty(URL))
        => /\ ComputeBaseHref(URL) = ContainingDirectoryHref(URL)
           /\ Right(ComputeBaseHref(URL), 1) = << "/" >>
           /\ PageBase = ComputeBaseHref(URL)

\* C8: no base-href script runs before load completion; an open before load
\* completion injects nothing; the load-completed callback injects the base
\* href of the URL current at that moment; an open after load completion
\* injects at once; the flag, once set, is never cleared.
C8_FlagOrdersInjection ==
    [][ /\ Count(calls', "ExecuteJavascript") > 0 => bBrowserTemplateLoaded'
        /\ (Opened(lastEvent', calls') /\ ~bBrowserTemplateLoaded)
              => Scripts(calls') = << >>
        /\ (lastEvent'.name = "HandleBrowserLoadCompleted" /\ AssetIsLink /\ ~IsEmpty(URL'))
              => Scripts(calls') = << Call("ExecuteJavascript", ComputeBaseHref(URL'), TRUE) >>
        /\ (Opened(lastEvent', calls') /\ bBrowserTemplateLoaded /\ ~IsEmpty(URL'))
              => Scripts(calls') = << Call("ExecuteJavascript", ComputeBaseHref(URL'), TRUE) >>
        /\ bBrowserTemplateLoaded => bBrowserTemplateLoaded' ]_vars

\* The part of C8 that is about the flag alone: scripts run only once the
\* flag is set, an open before that injects nothing, whatever is injected is
\* the base href of the URL current at that moment, and the flag stays set.
C8_OrderingOnly ==
    [][ /\ Count(calls', "ExecuteJavascript") > 0 => bBrowserTemplateLoaded'
        /\ (Opened(lastEvent', calls') /\ ~bBrowserTemplateLoaded)
              => Scripts(calls') = << >>
        /\ \A i \in 1..Len(Scripts(calls')) :
              Scripts(calls')[i].arg = ComputeBaseHref(URL')
        /\ bBrowserTemplateLoaded => bBrowserTemplateLoaded' ]_vars

\* C9: once the template has loaded, the page's base href is that of the link
\* asset's current URL, never that of a URL opened earlier.
C9_NoStaleBaseHref ==
    (AssetIsLink /\ browser = "complete" /\ ~IsEmpty(URL))
        => PageBase = ComputeBaseHref(URL)

=============================================================================
